---- MODULE Spec2Model ----
(***************************************************************************)
(* The farm boundary selection screen (component Travel of                 *)
(* src/frontend/app/(tabs)/travel/index.jsx) as a state machine.           *)
(*                                                                         *)
(* React state.  Each useState cell is a variable holding the value most   *)
(* recently handed to its setter.  The handlers of the screen are closures *)
(* created by a render: they read the state values of the render that      *)
(* created them, not the values set since.  `rendered` is the state as of  *)
(* the last committed render; it decides which of the three views is on    *)
(* screen and it is what every handler reads.  React commits a new render  *)
(* some time after a setter ran; when exactly, relative to the delivery of *)
(* the next event, is up to the renderer, so Render is a step of its own.  *)
(*                                                                         *)
(* Numbers.  Latitudes, longitudes and deltas are degrees times 100000     *)
(* (0.005 is 500, 37.78825 is 3778825), so that they are integers.         *)
(*                                                                         *)
(* Absent values.  JavaScript null is the empty sequence Null, a present   *)
(* value v is the one-element sequence Some(v).                            *)
(***************************************************************************)
EXTENDS Integers, Sequences, FiniteSets, TLC

VARIABLES
    region,            \* useState(null), line 11
    polygonPoints,     \* useState([]), line 12
    isSelecting,       \* useState(true), line 13
    loading,           \* useState(true), line 14
    loadingLocation,   \* useState(true), line 15
    errorMsg,          \* useState(null), line 16
    rendered,          \* the state values of the last committed render
    initPc,            \* where the mount effect's async function stands
    recenterInFlight,  \* getCurrentPositionAsync calls of centerOnLocation not yet settled
    op,                \* the handler or callback that ran last
    effect,            \* what that handler did to the outside: alert, push, animate, request
    tapped,            \* history: the taps delivered to handleMapPress that survive undo and reset
    onlyTaps,          \* history: no undo and no reset was delivered so far
    navigated          \* history: completePolygon has called router.push

vars == <<region, polygonPoints, isSelecting, loading, loadingLocation, errorMsg,
          rendered, initPc, recenterInFlight, op, effect, tapped, onlyTaps, navigated>>

state == <<region, polygonPoints, isSelecting, loading, loadingLocation, errorMsg>>

----------------------------------------------------------------------------
(* Bounds of the model *)

\* longest point list a tap may build
MaxPoints == 3

\* most recenter fetches in flight at once
MaxInFlight == 2

----------------------------------------------------------------------------
(* Values *)

Null == <<>>

Some(v) == <<v>>

\* coordinates the map can report for a tap (event.nativeEvent.coordinate)
Coords ==
    { [latitude |-> 1, longitude |-> 4],
      [latitude |-> 2, longitude |-> 5],
      [latitude |-> 3, longitude |-> 6] }

\* positions the Geolocation Provider can report (location.coords)
Locations ==
    { [latitude |-> 7, longitude |-> 8] }

ZoomDelta == 500

DefaultLatitude == 3778825

DefaultLongitude == -12243240

DefaultLatitudeDelta == 1500

DefaultLongitudeDelta == 1210

AnimationMs == 1000

MinPolygonPoints == 3

PermissionDeniedMsg == "Permission to access location was denied"

FetchFailedMsg == "Could not fetch location. Please check your GPS settings."

TooFewPointsMsg == "Please select at least 3 points to form a valid area"

RecenterFailedMsg == "Could not get current location"

\* the region both fetches build around a reported position
RegionAt(loc) ==
    [latitude |-> loc.latitude, longitude |-> loc.longitude,
     latitudeDelta |-> ZoomDelta, longitudeDelta |-> ZoomDelta]

\* the fallback written with the zoom of a fetched position
DefaultRegionFetchedZoom ==
    [latitude |-> DefaultLatitude, longitude |-> DefaultLongitude,
     latitudeDelta |-> ZoomDelta, longitudeDelta |-> ZoomDelta]

DefaultRegion ==
    [latitude |-> DefaultLatitude, longitude |-> DefaultLongitude,
     latitudeDelta |-> DefaultLatitudeDelta, longitudeDelta |-> DefaultLongitudeDelta]

----------------------------------------------------------------------------
(* Effects on the collaborators *)

NoEffect ==
    [kind |-> "none", message |-> "", polygonData |-> <<>>, region |-> Null, duration |-> 0]

Alert(msg) == [NoEffect EXCEPT !.kind = "alert", !.message = msg]

RouterPush(data) == [NoEffect EXCEPT !.kind = "push", !.polygonData = data]

AnimateToRegion(r, ms) ==
    [NoEffect EXCEPT !.kind = "animate", !.region = Some(r), !.duration = ms]

RequestPermission == [NoEffect EXCEPT !.kind = "requestPermission"]

GetCurrentPosition == [NoEffect EXCEPT !.kind = "getCurrentPosition"]

----------------------------------------------------------------------------
(* JSON.stringify of the point list, as the sequence of its tokens *)

StringifyPoint(p) ==
    <<"{", "latitude", ":", ToString(p.latitude), ",",
           "longitude", ":", ToString(p.longitude), "}">>

\* the elements of the array, separated by commas
RECURSIVE StringifyElements(_)
StringifyElements(pts) ==
    IF pts = <<>> THEN <<>>
    ELSE IF Len(pts) = 1 THEN StringifyPoint(Head(pts))
    ELSE StringifyPoint(Head(pts)) \o <<",">> \o StringifyElements(Tail(pts))

JSONStringify(pts) == <<"[">> \o StringifyElements(pts) \o <<"]">>

----------------------------------------------------------------------------
(* Rendering *)

Snapshot ==
    [region |-> region, polygonPoints |-> polygonPoints, isSelecting |-> isSelecting,
     loading |-> loading, loadingLocation |-> loadingLocation, errorMsg |-> errorMsg]

\* which of the three returns of the component a render takes
ViewOf(r) ==
    IF r.loading THEN "loading"
    ELSE IF r.errorMsg # Null /\ r.region = Null THEN "error"
    ELSE "map"

\* Undo and Reset are disabled while the rendered list is empty
EditEnabled(r) == Len(r.polygonPoints) # 0

\* the Complete button is part of the render only then
CompleteVisible(r) == r.isSelecting /\ Len(r.polygonPoints) >= MinPolygonPoints

\* mapRef.current is the MapView of the committed render, or null
MapMounted == ViewOf(rendered) = "map"

----------------------------------------------------------------------------
Init ==
    /\ region = Null
    /\ polygonPoints = <<>>
    /\ isSelecting = TRUE
    /\ loading = TRUE
    /\ loadingLocation = TRUE
    /\ errorMsg = Null
    /\ rendered = [region |-> Null, polygonPoints |-> <<>>, isSelecting |-> TRUE,
                   loading |-> TRUE, loadingLocation |-> TRUE, errorMsg |-> Null]
    /\ initPc = "mount"
    /\ recenterInFlight = 0
    /\ op = "construct"
    /\ effect = NoEffect
    /\ tapped = <<>>
    /\ onlyTaps = TRUE
    /\ navigated = FALSE

----------------------------------------------------------------------------
(* The mount effect: the async function of useEffect(..., []) *)

\* lines 22-26: runs once after the first render, up to the first await
MountEffect ==
    /\ initPc = "mount"
    /\ loading' = TRUE
    /\ loadingLocation' = TRUE
    /\ initPc' = "permission"
    /\ op' = "useEffect"
    /\ effect' = RequestPermission
    /\ UNCHANGED <<region, polygonPoints, isSelecting, errorMsg, rendered,
                   recenterInFlight, tapped, onlyTaps, navigated>>

\* a return inside try leaves through finally, which clears both flags too
PermissionDeniedSkipsFinally ==
    /\ initPc = "permission"
    /\ errorMsg' = Some(PermissionDeniedMsg)
    /\ loadingLocation' = FALSE
    /\ initPc' = "done"
    /\ op' = "permissionDenied"
    /\ effect' = NoEffect
    /\ UNCHANGED <<region, polygonPoints, isSelecting, loading, rendered,
                   recenterInFlight, tapped, onlyTaps, navigated>>

\* lines 26-31, then finally 55-58: status !== 'granted'
PermissionDenied ==
    /\ initPc = "permission"
    /\ errorMsg' = Some(PermissionDeniedMsg)
    /\ loadingLocation' = FALSE
    /\ loading' = FALSE
    /\ initPc' = "done"
    /\ op' = "permissionDenied"
    /\ effect' = NoEffect
    /\ UNCHANGED <<region, polygonPoints, isSelecting, rendered,
                   recenterInFlight, tapped, onlyTaps, navigated>>

\* lines 26-36: status === 'granted', the position is asked for
PermissionGranted ==
    /\ initPc = "permission"
    /\ initPc' = "position"
    /\ op' = "permissionGranted"
    /\ effect' = GetCurrentPosition
    /\ UNCHANGED <<state, rendered, recenterInFlight, tapped, onlyTaps, navigated>>

\* lines 44-58: what catch and finally leave behind
CatchAndFinally ==
    /\ errorMsg' = Some(FetchFailedMsg)
    /\ region' = Some(DefaultRegion)
    /\ loadingLocation' = FALSE
    /\ loading' = FALSE
    /\ initPc' = "done"
    /\ effect' = NoEffect
    /\ UNCHANGED <<polygonPoints, isSelecting, rendered, recenterInFlight, tapped, onlyTaps, navigated>>

\* line 26 throws: requestForegroundPermissionsAsync rejects
PermissionRequestRejected ==
    /\ initPc = "permission"
    /\ op' = "permissionRequestRejected"
    /\ CatchAndFinally

\* lines 33-43, then finally 55-58: the position arrives
PositionResolved ==
    /\ initPc = "position"
    /\ \E loc \in Locations : region' = Some(RegionAt(loc))
    /\ loadingLocation' = FALSE
    /\ loading' = FALSE
    /\ initPc' = "done"
    /\ op' = "positionResolved"
    /\ effect' = NoEffect
    /\ UNCHANGED <<polygonPoints, isSelecting, errorMsg, rendered,
                   recenterInFlight, tapped, onlyTaps, navigated>>

\* line 33 throws: getCurrentPositionAsync rejects (timeout, provider error)
PositionRejected ==
    /\ initPc = "position"
    /\ op' = "positionRejected"
    /\ CatchAndFinally

----------------------------------------------------------------------------
(* React commits a render of the current state *)

Render ==
    /\ rendered # Snapshot
    /\ rendered' = Snapshot
    /\ op' = "render"
    /\ effect' = NoEffect
    /\ UNCHANGED <<state, initPc, recenterInFlight, tapped, onlyTaps, navigated>>

----------------------------------------------------------------------------
(* The error view, lines 134-152 *)

\* a retry that clears the message and forgets to show the loading view
RetryForgetsLoading ==
    /\ ViewOf(rendered) = "error"
    /\ errorMsg' = Null
    /\ loadingLocation' = TRUE
    /\ op' = "retry"
    /\ effect' = NoEffect
    /\ UNCHANGED <<region, polygonPoints, isSelecting, loading, rendered, initPc,
                   recenterInFlight, tapped, onlyTaps, navigated>>

\* lines 142-146: onPress of Retry
Retry ==
    /\ ViewOf(rendered) = "error"
    /\ errorMsg' = Null
    /\ loading' = TRUE
    /\ loadingLocation' = TRUE
    /\ op' = "retry"
    /\ effect' = NoEffect
    /\ UNCHANGED <<region, polygonPoints, isSelecting, rendered, initPc,
                   recenterInFlight, tapped, onlyTaps, navigated>>

----------------------------------------------------------------------------
(* The map view, lines 154-315: its handlers read the rendered state *)

\* line 66: [...polygonPoints, coordinate]
AppendPoint(pts, c) == Append(pts, c)

\* the slice written from the wrong end, slice(1)
DropFirst(pts) == SubSeq(pts, 2, Len(pts))

\* line 79: polygonPoints.slice(0, -1)
DropLast(pts) == SubSeq(pts, 1, Len(pts) - 1)

\* the gate written with > in place of >=
HasMoreThanMinPoints(pts) == Len(pts) > MinPolygonPoints

\* line 85: polygonPoints.length >= 3
HasEnoughPoints(pts) == Len(pts) >= MinPolygonPoints

\* the point list the delivered taps, undos and resets describe
Undone(h) == IF h = <<>> THEN <<>> ELSE SubSeq(h, 1, Len(h) - 1)

\* lines 63-68: onPress of the MapView
handleMapPress ==
    /\ ViewOf(rendered) = "map"
    /\ Len(rendered.polygonPoints) < MaxPoints
    /\ Len(tapped) < MaxPoints
    /\ \E coordinate \in Coords :
          IF rendered.isSelecting
          THEN /\ polygonPoints' = AppendPoint(rendered.polygonPoints, coordinate)
               /\ tapped' = Append(tapped, coordinate)
          ELSE UNCHANGED <<polygonPoints, tapped>>
    /\ op' = "handleMapPress"
    /\ effect' = NoEffect
    /\ UNCHANGED <<region, isSelecting, loading, loadingLocation, errorMsg, rendered,
                   initPc, recenterInFlight, onlyTaps, navigated>>

\* reset written to end the selection mode
resetSelectionStopsSelecting ==
    /\ ViewOf(rendered) = "map"
    /\ EditEnabled(rendered)
    /\ polygonPoints' = <<>>
    /\ isSelecting' = FALSE
    /\ tapped' = <<>>
    /\ onlyTaps' = FALSE
    /\ op' = "resetSelection"
    /\ effect' = NoEffect
    /\ UNCHANGED <<region, loading, loadingLocation, errorMsg, rendered,
                   initPc, recenterInFlight, navigated>>

\* lines 71-74: onPress of Reset, disabled while the rendered list is empty
resetSelection ==
    /\ ViewOf(rendered) = "map"
    /\ EditEnabled(rendered)
    /\ polygonPoints' = <<>>
    /\ isSelecting' = TRUE
    /\ tapped' = <<>>
    /\ onlyTaps' = FALSE
    /\ op' = "resetSelection"
    /\ effect' = NoEffect
    /\ UNCHANGED <<region, loading, loadingLocation, errorMsg, rendered,
                   initPc, recenterInFlight, navigated>>

\* lines 77-81: onPress of Undo, disabled while the rendered list is empty
undoLastPoint ==
    /\ ViewOf(rendered) = "map"
    /\ EditEnabled(rendered)
    /\ IF Len(rendered.polygonPoints) > 0
       THEN polygonPoints' = DropLast(rendered.polygonPoints)
       ELSE UNCHANGED polygonPoints
    /\ tapped' = Undone(tapped)
    /\ onlyTaps' = FALSE
    /\ op' = "undoLastPoint"
    /\ effect' = NoEffect
    /\ UNCHANGED <<region, isSelecting, loading, loadingLocation, errorMsg, rendered,
                   initPc, recenterInFlight, navigated>>

\* a completion that also ends the selection mode once it has navigated
completePolygonEndsSelecting ==
    /\ ViewOf(rendered) = "map"
    /\ CompleteVisible(rendered)
    /\ op' = "completePolygon"
    /\ effect' = IF HasEnoughPoints(rendered.polygonPoints)
                 THEN RouterPush(JSONStringify(rendered.polygonPoints))
                 ELSE Alert(TooFewPointsMsg)
    /\ isSelecting' = ~HasEnoughPoints(rendered.polygonPoints)
    /\ navigated' = (navigated \/ HasEnoughPoints(rendered.polygonPoints))
    /\ UNCHANGED <<region, polygonPoints, loading, loadingLocation, errorMsg,
                   rendered, initPc, recenterInFlight, tapped, onlyTaps>>

\* lines 84-97: onPress of Complete, which lines 296-304 render only when CompleteVisible
completePolygon ==
    /\ ViewOf(rendered) = "map"
    /\ CompleteVisible(rendered)
    /\ op' = "completePolygon"
    /\ effect' = IF HasEnoughPoints(rendered.polygonPoints)
                 THEN RouterPush(JSONStringify(rendered.polygonPoints))
                 ELSE Alert(TooFewPointsMsg)
    /\ navigated' = (navigated \/ HasEnoughPoints(rendered.polygonPoints))
    /\ UNCHANGED <<state, rendered, initPc, recenterInFlight, tapped, onlyTaps>>

\* a press that asks for a quick position and for an accurate one
centerOnLocationFetchesTwice ==
    /\ ViewOf(rendered) = "map"
    /\ recenterInFlight < MaxInFlight
    /\ op' = "centerOnLocation"
    /\ IF rendered.region # Null
       THEN /\ recenterInFlight' = recenterInFlight + 2
            /\ effect' = GetCurrentPosition
       ELSE /\ UNCHANGED recenterInFlight
            /\ effect' = NoEffect
    /\ UNCHANGED <<state, rendered, initPc, tapped, onlyTaps, navigated>>

\* lines 100-105: onPress of the location button, up to the await
centerOnLocation ==
    /\ ViewOf(rendered) = "map"
    /\ recenterInFlight < MaxInFlight
    /\ op' = "centerOnLocation"
    /\ IF rendered.region # Null
       THEN /\ recenterInFlight' = recenterInFlight + 1
            /\ effect' = GetCurrentPosition
       ELSE /\ UNCHANGED recenterInFlight
            /\ effect' = NoEffect
    /\ UNCHANGED <<state, rendered, initPc, tapped, onlyTaps, navigated>>

\* lines 107-114: one of the awaited positions arrives
RecenterResolved ==
    /\ recenterInFlight > 0
    /\ recenterInFlight' = recenterInFlight - 1
    /\ op' = "recenterResolved"
    /\ \E loc \in Locations :
          effect' = IF MapMounted
                    THEN AnimateToRegion(RegionAt(loc), AnimationMs)
                    ELSE NoEffect
    /\ UNCHANGED <<state, rendered, initPc, tapped, onlyTaps, navigated>>

\* the catch of centerOnLocation written like the catch of the mount effect
RecenterRejectedFallsBack ==
    /\ recenterInFlight > 0
    /\ recenterInFlight' = recenterInFlight - 1
    /\ op' = "recenterRejected"
    /\ effect' = Alert(RecenterFailedMsg)
    /\ region' = Some(DefaultRegion)
    /\ UNCHANGED <<polygonPoints, isSelecting, loading, loadingLocation, errorMsg,
                   rendered, initPc, tapped, onlyTaps, navigated>>

\* lines 115-118: one of the awaited positions fails
RecenterRejected ==
    /\ recenterInFlight > 0
    /\ recenterInFlight' = recenterInFlight - 1
    /\ op' = "recenterRejected"
    /\ effect' = Alert(RecenterFailedMsg)
    /\ UNCHANGED <<state, rendered, initPc, tapped, onlyTaps, navigated>>

----------------------------------------------------------------------------
Next ==
    \/ MountEffect
    \/ PermissionDenied
    \/ PermissionGranted
    \/ PermissionRequestRejected
    \/ PositionResolved
    \/ PositionRejected
    \/ Render
    \/ Retry
    \/ handleMapPress
    \/ resetSelection
    \/ undoLastPoint
    \/ completePolygon
    \/ centerOnLocation
    \/ RecenterResolved
    \/ RecenterRejected

Spec == Init /\ [][Next]_vars

----------------------------------------------------------------------------
(* Derived notions the properties use *)

\* every position request not yet answered
PositionRequestsInFlight == (IF initPc = "position" THEN 1 ELSE 0) + recenterInFlight

\* the states of the screen's state machine, by the state values
Loading == loading

LocationError == ~loading /\ errorMsg # Null /\ region = Null

Selecting == ~loading /\ ~(errorMsg # Null /\ region = Null)

\* the committed render shows the state as it is
InSync == rendered = Snapshot

----------------------------------------------------------------------------
(* Properties *)

C2_NoTapDropped ==
    (onlyTaps /\ InSync) => Len(polygonPoints) = Len(tapped)

\* C3: a press of Retry in the error view puts the screen into Loading and
\* runs the initialisation again: a permission request is issued.
C3_RetryReinitializes ==
    op = "retry" =>
        /\ loading
        /\ effect.kind = "requestPermission"
        /\ initPc = "permission"

\* C4: a denied permission request leaves the screen in LocationError: the
\* error message is set, region is absent, loading is cleared, the render of
\* that state is the error view; and in every LocationError state points is
\* empty and no step changes it.
C4_DeniedEndsInLocationError ==
    [][/\ (op = "permissionDenied" =>
              /\ errorMsg = Some(PermissionDeniedMsg)
              /\ region = Null
              /\ ~loading
              /\ LocationError
              /\ ViewOf(Snapshot) = "error")'
       /\ (LocationError => polygonPoints = <<>>)'
       /\ (ViewOf(rendered) = "error" => polygonPoints = <<>>)'
       /\ (LocationError \/ ViewOf(rendered) = "error") =>
              polygonPoints' = polygonPoints]_vars

C4_Witness ==
    /\ errorMsg = Some(PermissionDeniedMsg)
    /\ LocationError
    /\ ViewOf(rendered) = "error"
    /\ polygonPoints = <<>>

\* C5: when the position fetch of the initialisation fails, region is the
\* default {37.78825, -122.4324, 0.015, 0.0121}, the fetch error message is
\* recorded, loading is cleared, and the render of that state is the map.
C5_FetchFailureFallsBackToDefault ==
    op = "positionRejected" =>
        /\ region = Some([latitude |-> 3778825, longitude |-> -12243240,
                          latitudeDelta |-> 1500, longitudeDelta |-> 1210])
        /\ errorMsg = Some(FetchFailedMsg)
        /\ ~loading
        /\ ~loadingLocation
        /\ Selecting
        /\ ViewOf(Snapshot) = "map"

C5_Witness ==
    /\ errorMsg = Some(FetchFailedMsg)
    /\ region = Some(DefaultRegion)
    /\ ViewOf(rendered) = "map"
    /\ op = "handleMapPress"
    /\ Len(polygonPoints) > 0

\* C6: the polygon completePolygon hands to the router is the serialised
\* list of the delivered taps that survive the delivered undos and resets,
\* in the order they were tapped.
C6_RouterReceivesSurvivingTaps ==
    (op = "completePolygon" /\ effect.kind = "push") =>
        effect.polygonData = JSONStringify(tapped)

\* C7: undoLastPoint removes exactly the last point of a non-empty list and
\* keeps the prefix (so an undo right after a tap restores the list from before
\* the tap), does nothing to an empty list, and leaves isSelecting and region.
C7_UndoRemovesExactlyLast ==
    [][op' = "undoLastPoint" =>
          /\ polygonPoints' = Undone(polygonPoints)
          /\ isSelecting' = isSelecting
          /\ region' = region]_vars

\* C8: resetSelection always leaves points empty and isSelecting true, and
\* leaves region, loading, loadingLocation and errorMsg as they were.
C8_ResetClearsAndKeepsRest ==
    [][op' = "resetSelection" =>
          /\ polygonPoints' = <<>>
          /\ isSelecting' = TRUE
          /\ UNCHANGED <<region, loading, loadingLocation, errorMsg>>]_vars

C8_Witness ==
    /\ op = "resetSelection"
    /\ Len(rendered.polygonPoints) > 0
    /\ polygonPoints = <<>>
    /\ isSelecting

\* C9: when the position fetch of a recenter fails, the user gets the
\* warning, no animate-to-region command is issued, and region, points,
\* isSelecting, loading, loadingLocation and errorMsg stay as they were.
C9_RecenterFailureChangesNothing ==
    [][op' = "recenterRejected" =>
          /\ effect'.kind = "alert"
          /\ effect'.message = RecenterFailedMsg
          /\ effect'.region = Null
          /\ UNCHANGED state]_vars

C9_Witness ==
    /\ op = "recenterRejected"
    /\ effect.kind = "alert"
    /\ region # Null
    /\ Len(polygonPoints) > 0

\* C10 as stated: at most one position request is in flight in every state.
C10_AtMostOneFetchInFlight ==
    PositionRequestsInFlight <= 1

\* C10 as amended: while the screen is loading at most one position request
\* is in flight (the one of the initialisation); no step issues more than
\* one; every press of the recenter control with a region issues exactly one
\* more, whatever is in flight already.
C10_OneRequestPerAction ==
    [][/\ (loading => PositionRequestsInFlight <= 1)'
       /\ PositionRequestsInFlight' <= PositionRequestsInFlight + 1
       /\ (op' = "centerOnLocation" /\ rendered.region # Null) =>
              PositionRequestsInFlight' = PositionRequestsInFlight + 1]_vars

C10_Witness ==
    /\ op = "centerOnLocation"
    /\ PositionRequestsInFlight = 2

\* one of the four ways a point list may change: not at all, one point
\* appended at the end, the last point removed, or emptied
FourWays(old, new) ==
    \/ new = old
    \/ Len(new) = Len(old) + 1 /\ SubSeq(new, 1, Len(old)) = old
    \/ old # <<>> /\ new = SubSeq(old, 1, Len(old) - 1)
    \/ new = <<>>

C12_LoadingEndsWithInitialization ==
    [][/\ (loading /\ ~loading') =>
              ((Selecting /\ region # Null)' \/ LocationError')
       /\ (initPc = "done" => ~loading)']_vars

\* C13 as stated: once completePolygon has triggered the navigation, no
\* later step changes points and no later step triggers a navigation.
C13_NavigationIsTerminal ==
    [][navigated => (polygonPoints' = polygonPoints /\ effect'.kind # "push")]_vars

\* C13 as amended: completePolygon sets no state of the screen, so the
\* screen stays as live after the navigation as before it: a later tap,
\* undo or reset sets points as usual, and a later press of Complete
\* triggers a navigation again, with the list rendered at that time.
C13_NavigationLeavesScreenLive ==
    [][/\ op' = "completePolygon" =>
              /\ UNCHANGED <<state, rendered, initPc, recenterInFlight>>
              /\ navigated'
       /\ navigated => navigated'
       /\ (navigated /\ op' = "completePolygon") =>
              /\ effect'.kind = "push"
              /\ effect'.polygonData = JSONStringify(rendered.polygonPoints)
       /\ (navigated /\ op' = "handleMapPress") =>
              Len(polygonPoints') = Len(rendered.polygonPoints) + 1
       /\ (navigated /\ op' = "undoLastPoint") =>
              Len(polygonPoints') = Len(rendered.polygonPoints) - 1
       /\ (navigated /\ op' = "resetSelection") => polygonPoints' = <<>>]_vars

C13_Witness ==
    /\ navigated
    /\ op = "handleMapPress"
    /\ rendered.polygonPoints = <<>>
    /\ Len(polygonPoints) = 1

\* C14: isSelecting is true in every state and in every render, so a tap
\* delivered to handleMapPress always takes the appending branch: after it
\* points is the list the handler read plus one point.
C14_AlwaysSelecting ==
    /\ isSelecting
    /\ rendered.isSelecting
    /\ op = "handleMapPress" =>
          /\ Len(polygonPoints) = Len(rendered.polygonPoints) + 1
          /\ SubSeq(polygonPoints, 1, Len(rendered.polygonPoints)) = rendered.polygonPoints
          /\ polygonPoints[Len(polygonPoints)] \in Coords

C14_Witness ==
    /\ op = "handleMapPress"
    /\ ~onlyTaps
    /\ isSelecting
    /\ tapped = polygonPoints
    /\ Len(polygonPoints) = 1

\* C15: in no state is loading false while errorMsg and region are both
\* absent, and the map view is rendered only with a region present.
C15_MapOnlyWithRegion ==
    /\ ~(~loading /\ errorMsg = Null /\ region = Null)
    /\ Selecting => region # Null
    /\ ViewOf(rendered) = "map" => rendered.region # Null

C15_Witness ==
    /\ op = "retry"
    /\ errorMsg = Null
    /\ region = Null
    /\ loading

====
